---- MODULE Spec2Model ----
(***************************************************************************)
(* Model of stitch_videos.py: the StitchManager registry of active         *)
(* compilations and stitch_videos_async, whose synchronous part validates, *)
(* snapshots and registers, and whose worker thread process_videos writes  *)
(* the list file, runs FFmpeg, cleans up, calls back and unregisters.      *)
(*                                                                         *)
(* Every call of stitch_videos_async is one caller thread c; the worker    *)
(* thread it starts is the worker of c.  pc[c] is the caller's position,   *)
(* wpc[c] the position of its worker.                                      *)
(***************************************************************************)
EXTENDS Integers, Sequences, FiniteSets, TLC

(***************************************************************************)
(* Bounds                                                                  *)
(***************************************************************************)
\* number of stitch_videos_async calls (each on its own thread)
MaxCalls == 2
\* number of files that appear in the folder while the program runs
MaxAdded == 1
\* largest modification time of a file in the study of the sort order
MaxMTime == 3

Callers == 1..MaxCalls

(***************************************************************************)
(* Values                                                                  *)
(***************************************************************************)
None == <<"None">>
Pending == <<"pending">>
NoKey == "None"
NoFile == [exists |-> FALSE, lines |-> <<>>]
Free == <<"free", 0>>
Caller(c) == <<"caller", c>>
Worker(c) == <<"worker", c>>

Names == {"n1", "n2"}

\* folder paths: an existing directory, an existing regular file, nothing
Folders == {"clips", "afile", "missing"}
Exists(folder) == folder \in {"clips", "afile"}
IsDir(folder) == folder = "clips"

\* file names are <<stem, suffix>>
InitialFiles == {<<"a", ".mp4">>, <<"b", ".mp4">>, <<"n", ".txt">>}
\* the recordings that appear later, in this order
AddedStems == <<"c", "d", "e">>
AddedFile(i) == <<AddedStems[i], ".mp4">>
AddableFiles == { AddedFile(i) : i \in 1..MaxAdded }
AllFiles == InitialFiles \cup AddableFiles

\* output paths are sequences of path pieces
OutputPaths == {<<"clips/", "_comp_", "1.mp4">>, <<"_comp_", "1.mp4">>}

\* sort_lambda: None (default), a key on the file name, a key that raises
SortKeys == {NoKey, "byName", "raises"}

\* the requests the callers make.  For the name "n1": a valid folder with
\* the default key under each combination of cleanup_source and protected
\* output (with a callback when the output is not protected), a valid
\* folder with each custom key, and each invalid folder.  For the name "n2":
\* the plain request with a callback.
Requests ==
    { r \in [name : Names, folder : Folders, output : OutputPaths,
             sort : SortKeys, cleanup : BOOLEAN, callback : BOOLEAN] :
        /\ (r.folder # "clips" \/ r.sort # NoKey) =>
               (r.cleanup /\ ~r.callback /\ r.output[1] = "clips/")
        /\ r.folder # "clips" => r.sort = NoKey
        /\ (r.folder = "clips" /\ r.sort = NoKey) => (r.callback <=> r.output[1] = "clips/")
        /\ r.name = "n2" => (r.folder = "clips" /\ r.sort = NoKey /\ r.cleanup
                             /\ r.callback) }

(***************************************************************************)
(* Pure helpers                                                            *)
(***************************************************************************)
\* as StartsWith, but the prefix may stand anywhere in the path
ContainsPiece(path, prefix) == \E i \in 1..Len(path) : path[i] = prefix

\* str.endswith on a file name, str.startswith on a path
EndsWith(f, suffix) == f[Len(f)] = suffix
StartsWith(path, prefix) == Len(path) >= 1 /\ path[1] = prefix

\* every order in which os.listdir may return the entries of a directory
RECURSIVE Orders(_)
Orders(S) ==
    IF S = {} THEN {<<>>}
    ELSE UNION { { <<x>> \o s : s \in Orders(S \ {x}) } : x \in S }

\* [f for f in os.listdir(folder_path) if f.endswith(".mp4")]
IsVideo(f) == EndsWith(f, ".mp4")
VideoFiles(listing) == SelectSeq(listing, IsVideo)

\* as InsertByKey, for a sort with reverse=True (newest first)
RECURSIVE InsertByKeyDescending(_, _, _)
InsertByKeyDescending(x, s, key) ==
    IF s = <<>> THEN <<x>>
    ELSE IF key[x] > key[Head(s)] THEN <<x>> \o s
    ELSE <<Head(s)>> \o InsertByKeyDescending(x, Tail(s), key)

\* sorted(video_files, key=..., reverse=False): a stable ascending sort
RECURSIVE InsertByKey(_, _, _)
InsertByKey(x, s, key) ==
    IF s = <<>> THEN <<x>>
    ELSE IF key[x] < key[Head(s)] THEN <<x>> \o s
    ELSE <<Head(s)>> \o InsertByKey(x, Tail(s), key)

RECURSIVE Sorted(_, _)
Sorted(s, key) ==
    IF s = <<>> THEN <<>>
    ELSE InsertByKey(s[Len(s)], Sorted(SubSeq(s, 1, Len(s) - 1), key), key)

\* a caller-supplied key over the file name
StemRank(stem) ==
    CASE stem = "a" -> 1 [] stem = "b" -> 2 [] stem = "c" -> 3 [] stem = "d" -> 4
      [] stem = "e" -> 5 [] OTHER -> 6
NameKey == [f \in AllFiles |-> StemRank(f[1])]

Range(s) == { s[i] : i \in 1..Len(s) }

(***************************************************************************)
(* StitchManager: the registry operations on the map active_stitches       *)
(***************************************************************************)
is_stitching(a, name) == name \in DOMAIN a

\* as register_stitch, without the membership test
register_stitch_nocheck(a, name, folder, output, now) ==
    [ok |-> TRUE,
     map |-> [m \in DOMAIN a \cup {name} |->
                IF m = name
                THEN [start_time |-> now, folder_path |-> folder,
                      output_path |-> output, status |-> "started"]
                ELSE a[m]]]

\* as register_stitch, but a refused registration replaces the record
register_stitch_overwrite(a, name, folder, output, now) ==
    [ok |-> name \notin DOMAIN a,
     map |-> [m \in DOMAIN a \cup {name} |->
                IF m = name
                THEN [start_time |-> now, folder_path |-> folder,
                      output_path |-> output, status |-> "started"]
                ELSE a[m]]]

\* as register_stitch, but a new registration replaces the whole map
register_stitch_clobber(a, name, folder, output, now) ==
    IF name \in DOMAIN a
    THEN [ok |-> FALSE, map |-> a]
    ELSE [ok |-> TRUE,
          map |-> (name :> [start_time |-> now, folder_path |-> folder,
                            output_path |-> output, status |-> "started"])]

\* as register_stitch, but a folder that an active job uses is refused too
register_stitch_folderguard(a, name, folder, output, now) ==
    IF name \in DOMAIN a \/ \E m \in DOMAIN a : a[m].folder_path = folder
    THEN [ok |-> FALSE, map |-> a]
    ELSE [ok |-> TRUE,
          map |-> a @@ (name :> [start_time |-> now, folder_path |-> folder,
                                 output_path |-> output, status |-> "started"])]

register_stitch(a, name, folder, output, now) ==
    IF name \in DOMAIN a
    THEN [ok |-> FALSE, map |-> a]
    ELSE [ok |-> TRUE,
          map |-> a @@ (name :> [start_time |-> now, folder_path |-> folder,
                                 output_path |-> output, status |-> "started"])]

\* as unregister_stitch, but the whole map is emptied
unregister_stitch_clear(a, name) == <<>>

\* as unregister_stitch, but the entry stays, marked as finished
unregister_stitch_sticky(a, name) ==
    IF name \in DOMAIN a THEN [a EXCEPT ![name].status = "finished"] ELSE a

unregister_stitch(a, name) ==
    IF name \in DOMAIN a THEN [m \in DOMAIN a \ {name} |-> a[m]] ELSE a

(***************************************************************************)
(* State                                                                   *)
(***************************************************************************)
VARIABLES
    instance,         \* StitchManager._instance has been created
    singleton_lock,   \* the thread holding StitchManager._lock, or Free
    active_stitches,  \* StitchManager.active_stitches: name -> record
    active_lock,      \* the thread holding StitchManager.active_lock, or Free
    clock,            \* time.time()
    files,            \* the entries of the folder "clips"
    mtime,            \* the modification time of each file
    added,            \* how many files have appeared since the start
    listFile,         \* name -> content of file_list_<name>.txt, or NoFile
    args,             \* the arguments of each call
    pc,               \* position of each caller in stitch_videos_async
    video_files,      \* the local video_files of each call
    ret,              \* what each call returned
    wpc,              \* position of each worker in process_videos
    idx,              \* the worker's position in the deletion loop
    regTime,          \* history: start_time of the call's registration, 0 if none
    snap,             \* history: the matching files present when the call listed the folder
    written,          \* history: the lines the worker wrote to its list file
    outcome,          \* history: how the worker's run ended
    attempted,        \* history: the files the worker tried to delete
    cbCalls,          \* history: the arguments the callback was called with
    failed,           \* history: the files whose os.remove raised in the worker
    rmTried,          \* history: the worker has called os.remove on its list file
    concurrentWith    \* history: the calls in progress when this call began

vars == <<instance, singleton_lock, active_stitches, active_lock, clock, files,
          mtime, added, listFile, args, pc, video_files, ret, wpc, idx, regTime,
          snap, written, outcome, attempted, cbCalls, failed, rmTried,
          concurrentWith>>

registryVars == <<instance, singleton_lock, active_stitches, active_lock, clock>>
fsVars == <<files, mtime, added, listFile>>
callVars == <<args, pc, video_files, ret, regTime, snap, concurrentWith>>
workVars == <<wpc, idx, written, outcome, attempted, cbCalls, failed, rmTried>>

\* the arguments of a call that has not been made
NoArgs == [name |-> "-", folder |-> "-", output |-> <<>>, sort |-> NoKey,
           cleanup |-> FALSE, callback |-> FALSE]

InCall == {"new", "is_stitching", "is_read", "listdir", "register", "reg_body",
           "sort", "start", "ret"}

\* modification times: b.mp4 is older than a.mp4, and a recording that
\* appears later is newer than both
MTimes == { [f \in AllFiles |-> CASE f[1] = "a" -> 2 [] f[1] = "b" -> 1
                                  [] f[1] = "n" -> 1 [] OTHER -> StemRank(f[1])] }

Init ==
    /\ instance = FALSE
    /\ singleton_lock = Free
    /\ active_stitches = <<>>
    /\ active_lock = Free
    /\ clock = 1
    /\ files = InitialFiles
    /\ mtime \in MTimes
    /\ added = 0
    /\ listFile = [n \in Names |-> NoFile]
    /\ args = [c \in Callers |-> NoArgs]
    /\ pc = [c \in Callers |-> "idle"]
    /\ video_files = [c \in Callers |-> <<>>]
    /\ ret = [c \in Callers |-> Pending]
    /\ wpc = [c \in Callers |-> "notstarted"]
    /\ idx = [c \in Callers |-> 0]
    /\ regTime = [c \in Callers |-> 0]
    /\ snap = [c \in Callers |-> {}]
    /\ written = [c \in Callers |-> <<>>]
    /\ outcome = [c \in Callers |-> "none"]
    /\ attempted = [c \in Callers |-> {}]
    /\ cbCalls = [c \in Callers |-> <<>>]
    /\ failed = [c \in Callers |-> {}]
    /\ rmTried = [c \in Callers |-> FALSE]
    /\ concurrentWith = [c \in Callers |-> {}]

(***************************************************************************)
(* stitch_videos_async: the synchronous part, on the caller's thread       *)
(***************************************************************************)
\* a rejection: the log line and "return None"
Reject(c) ==
    /\ pc' = [pc EXCEPT ![c] = "returned"]
    /\ ret' = [ret EXCEPT ![c] = None]

\* the call itself, and StitchManager() entering "with cls._lock"
\* (the calls are numbered in the order in which they are made)
Call(c) ==
    /\ pc[c] = "idle"
    /\ \A d \in Callers : d < c => pc[d] # "idle"
    /\ singleton_lock = Free
    /\ singleton_lock' = Caller(c)
    /\ \E r \in Requests : args' = [args EXCEPT ![c] = r]
    /\ pc' = [pc EXCEPT ![c] = "new"]
    /\ concurrentWith' = [concurrentWith EXCEPT ![c] = {d \in Callers : pc[d] \in InCall}]
    /\ UNCHANGED <<instance, active_stitches, active_lock, clock, fsVars, video_files,
                   ret, regTime, snap, workVars>>

\* StitchManager.__new__: the singleton is created on first use (_initialize
\* makes the empty map and active_lock), and cls._lock is released
NewInstance(c) ==
    /\ pc[c] = "new"
    /\ instance' = TRUE
    /\ singleton_lock' = Free
    /\ pc' = [pc EXCEPT ![c] = "is_stitching"]
    /\ UNCHANGED <<active_stitches, active_lock, clock, fsVars, args, video_files,
                   ret, regTime, snap, concurrentWith, workVars>>

\* is_stitching: "with self.active_lock"
IsStitchingAcquire(c) ==
    /\ pc[c] = "is_stitching"
    /\ active_lock = Free
    /\ active_lock' = Caller(c)
    /\ pc' = [pc EXCEPT ![c] = "is_read"]
    /\ UNCHANGED <<instance, singleton_lock, active_stitches, clock, fsVars, args, video_files, ret,
                   regTime, snap, concurrentWith, workVars>>

\* is_stitching's answer and the lock's release, then the folder checks
IsStitchingRead(c) ==
    /\ pc[c] = "is_read"
    /\ active_lock' = Free
    /\ IF is_stitching(active_stitches, args[c].name)
       THEN Reject(c)
       ELSE IF ~Exists(args[c].folder) \/ ~IsDir(args[c].folder)
       THEN Reject(c)
       ELSE pc' = [pc EXCEPT ![c] = "listdir"] /\ ret' = ret
    /\ UNCHANGED <<instance, singleton_lock, active_stitches, clock, fsVars, args, video_files,
                   regTime, snap, concurrentWith, workVars>>

\* the snapshot of the folder's video files
ListFolder(c) ==
    /\ pc[c] = "listdir"
    /\ \E listing \in Orders(files) :
         LET vf == VideoFiles(listing) IN
         IF vf = <<>>
         THEN Reject(c) /\ UNCHANGED <<video_files, snap>>
         ELSE /\ video_files' = [video_files EXCEPT ![c] = vf]
              /\ snap' = [snap EXCEPT ![c] = {f \in files : IsVideo(f)}]
              /\ pc' = [pc EXCEPT ![c] = "register"]
              /\ ret' = ret
    /\ UNCHANGED <<registryVars, fsVars, args, regTime, concurrentWith, workVars>>

\* _register_stitch: "with self.active_lock"
RegisterAcquire(c) ==
    /\ pc[c] = "register"
    /\ active_lock = Free
    /\ active_lock' = Caller(c)
    /\ pc' = [pc EXCEPT ![c] = "reg_body"]
    /\ UNCHANGED <<instance, singleton_lock, active_stitches, clock, fsVars, args, video_files, ret,
                   regTime, snap, concurrentWith, workVars>>

\* as LockAfterRegister, with the lock taken by acquire() and released only
\* at the end of the method: the early "return False" keeps it
LockAfterRegisterKept(c, ok) == IF ok THEN Free ELSE Caller(c)

\* "with self.active_lock" releases the lock on both returns of _register_stitch
LockAfterRegister(c, ok) == Free

\* _register_stitch's body and the lock's release; "return None" if it refused
RegisterBody(c) ==
    /\ pc[c] = "reg_body"
    /\ LET r == register_stitch(active_stitches, args[c].name, args[c].folder,
                                args[c].output, clock) IN
       /\ active_stitches' = r.map
       /\ active_lock' = LockAfterRegister(c, r.ok)
       /\ IF r.ok
          THEN /\ regTime' = [regTime EXCEPT ![c] = clock]
               /\ clock' = clock + 1
               /\ pc' = [pc EXCEPT ![c] = "sort"]
               /\ ret' = ret
          ELSE /\ Reject(c)
               /\ UNCHANGED <<regTime, clock>>
    /\ UNCHANGED <<instance, singleton_lock, fsVars, args, video_files, snap, concurrentWith, workVars>>

\* the key of the sort: os.path.getmtime by default
KeyFor(c) == IF args[c].sort = NoKey THEN mtime ELSE NameKey

\* the key raises: the caller's own key does, or getmtime on a file that is gone
KeyRaises(c) ==
    \/ args[c].sort = "raises"
    \/ args[c].sort = NoKey /\ \E f \in Range(video_files[c]) : f \notin files

\* sorted(video_files, key=sort_lambda) and the logging of the order; an
\* exception of the key leaves stitch_videos_async
SortFiles(c) ==
    /\ pc[c] = "sort"
    /\ IF KeyRaises(c)
       THEN pc' = [pc EXCEPT ![c] = "raised"] /\ UNCHANGED video_files
       ELSE /\ video_files' = [video_files EXCEPT ![c] = Sorted(video_files[c], KeyFor(c))]
            /\ pc' = [pc EXCEPT ![c] = "start"]
    /\ UNCHANGED <<registryVars, fsVars, args, ret, regTime, snap, concurrentWith, workVars>>

\* threading.Thread(target=process_videos, daemon=True).start()
StartThread(c) ==
    /\ pc[c] = "start"
    /\ wpc' = [wpc EXCEPT ![c] = "write"]
    /\ pc' = [pc EXCEPT ![c] = "ret"]
    /\ UNCHANGED <<registryVars, fsVars, args, video_files, ret, regTime, snap,
                   concurrentWith, idx, written, outcome, attempted, cbCalls,
                   failed, rmTried>>

\* Thread.start raises RuntimeError when no thread can be started
StartThreadFails(c) ==
    /\ pc[c] = "start"
    /\ pc' = [pc EXCEPT ![c] = "raised"]
    /\ UNCHANGED <<registryVars, fsVars, args, video_files, ret, regTime, snap,
                   concurrentWith, workVars>>

\* as CanReturn, but the caller joins the thread first
CanReturnJoined(c) == wpc[c] = "done"

\* "return output_path" follows the start of the thread at once
CanReturn(c) == wpc[c] # "notstarted"

Return(c) ==
    /\ pc[c] = "ret"
    /\ CanReturn(c)
    /\ ret' = [ret EXCEPT ![c] = args[c].output]
    /\ pc' = [pc EXCEPT ![c] = "returned"]
    /\ UNCHANGED <<registryVars, fsVars, args, video_files, regTime, snap,
                   concurrentWith, workVars>>

(***************************************************************************)
(* process_videos: the worker thread                                       *)
(***************************************************************************)
\* as AfterExit, with the unregistration after the try block instead of in
\* a finally clause: the early "return" skips it
AfterExitNoFinally(kind) == IF kind = "notfound" THEN "done" ELSE "unreg"

\* as AfterExit, with a failed run of the tool tried again
AfterExitRetries(kind) == IF kind = "nonzero" THEN "chk" ELSE "unreg"

\* as AfterExit, with the callback called on the error path as well
AfterExitCallsBack(kind) == IF kind = "nonzero" THEN "cb" ELSE "unreg"

\* "finally: stitch_mgr._unregister_stitch(compilation_name)": where the
\* worker goes when the try block is left, whichever way it is left
AfterExit(kind) == "unreg"

\* as ListLines, but the folder is listed again when the list file is written
ListLinesRelisted(c) ==
    LET vf == Sorted(VideoFiles(CHOOSE l \in Orders(files) : TRUE), NameKey)
    IN  [i \in 1..Len(vf) |-> <<args[c].folder, vf[i]>>]

\* the lines "file '<folder_path>/<video>'" written for the call's video_files
ListLines(c) == [i \in 1..Len(video_files[c]) |-> <<args[c].folder, video_files[c][i]>>]

\* open(list_file_path, "w") and the writes
WriteList(c) ==
    /\ wpc[c] = "write"
    /\ listFile' = [listFile EXCEPT ![args[c].name] = [exists |-> TRUE, lines |-> ListLines(c)]]
    /\ written' = [written EXCEPT ![c] = ListLines(c)]
    /\ wpc' = [wpc EXCEPT ![c] = "chk"]
    /\ UNCHANGED <<registryVars, files, mtime, added, callVars, idx, outcome,
                   attempted, cbCalls, failed, rmTried>>

\* the list file cannot be written: "except Exception"
WriteListFails(c) ==
    /\ wpc[c] = "write"
    /\ outcome' = [outcome EXCEPT ![c] = "fault"]
    /\ wpc' = [wpc EXCEPT ![c] = AfterExit("fault")]
    /\ UNCHANGED <<registryVars, fsVars, callVars, idx, written, attempted, cbCalls,
                   failed, rmTried>>

\* os.path.exists(ffmpeg_path) holds
ToolPathFound(c) ==
    /\ wpc[c] = "chk"
    /\ wpc' = [wpc EXCEPT ![c] = "tool"]
    /\ UNCHANGED <<registryVars, fsVars, callVars, idx, written, outcome, attempted,
                   cbCalls, failed, rmTried>>

\* os.path.exists(ffmpeg_path) fails: log and "return"
ToolPathMissing(c) ==
    /\ wpc[c] = "chk"
    /\ outcome' = [outcome EXCEPT ![c] = "notfound"]
    /\ wpc' = [wpc EXCEPT ![c] = AfterExit("notfound")]
    /\ UNCHANGED <<registryVars, fsVars, callVars, idx, written, attempted, cbCalls,
                   failed, rmTried>>

\* "if cleanup_source and not output_path.startswith('_comp_')"
ShouldCleanup(c) == args[c].cleanup /\ ~StartsWith(args[c].output, "_comp_")

\* subprocess.run(..., check=True) returns: FFmpeg exited with status zero
ToolSucceeds(c) ==
    /\ wpc[c] = "tool"
    /\ outcome' = [outcome EXCEPT ![c] = "zero"]
    /\ IF ShouldCleanup(c)
       THEN wpc' = [wpc EXCEPT ![c] = "del"] /\ idx' = [idx EXCEPT ![c] = 1]
       ELSE wpc' = [wpc EXCEPT ![c] = "rmlist"] /\ idx' = idx
    /\ UNCHANGED <<registryVars, fsVars, callVars, written, attempted, cbCalls,
                   failed, rmTried>>

\* subprocess.run raises: CalledProcessError on a non-zero exit status, an
\* OSError when the tool cannot be launched
ToolFails(c) ==
    /\ wpc[c] = "tool"
    /\ \E kind \in {"nonzero", "launchfault"} :
         /\ outcome' = [outcome EXCEPT ![c] = kind]
         /\ wpc' = [wpc EXCEPT ![c] = AfterExit(kind)]
    /\ UNCHANGED <<registryVars, fsVars, callVars, idx, written, attempted, cbCalls,
                   failed, rmTried>>

\* as DeleteNext, with one try around the whole loop: the first os.remove
\* that raises ends the try block
DeleteNextAborts(c, ok) ==
    IF ~ok THEN "unreg"
    ELSE IF idx[c] = Len(video_files[c]) THEN "rmlist" ELSE "del"

\* where the worker goes after one os.remove of the loop, which returned (ok)
\* or raised and was logged by the loop's own "except Exception"
DeleteNext(c, ok) == IF idx[c] = Len(video_files[c]) THEN "rmlist" ELSE "del"

\* one round of "for video in video_files: os.remove(vid_path)"; a file that
\* is gone makes os.remove raise
DeleteSource(c) ==
    /\ wpc[c] = "del"
    /\ LET f == video_files[c][idx[c]]
           ok == f \in files
           next == DeleteNext(c, ok)
       IN  /\ attempted' = [attempted EXCEPT ![c] = @ \cup {f}]
           /\ failed' = [failed EXCEPT ![c] = IF ok THEN @ ELSE @ \cup {f}]
           /\ files' = files \ {f}
           /\ wpc' = [wpc EXCEPT ![c] = next]
           /\ idx' = [idx EXCEPT ![c] = IF next = "del" THEN @ + 1 ELSE @]
    /\ UNCHANGED <<registryVars, mtime, added, listFile, callVars, written, outcome,
                   cbCalls, rmTried>>

\* "if callback: callback(output_path)", or the end of the try block
AfterRemoveList(c) == IF args[c].callback THEN "cb" ELSE AfterExit("nocallback")

\* os.remove(list_file_path) removes the list file
RemoveList(c) ==
    /\ wpc[c] = "rmlist"
    /\ listFile' = [listFile EXCEPT ![args[c].name] = NoFile]
    /\ rmTried' = [rmTried EXCEPT ![c] = TRUE]
    /\ wpc' = [wpc EXCEPT ![c] = AfterRemoveList(c)]
    /\ UNCHANGED <<registryVars, files, mtime, added, callVars, idx, written, outcome,
                   attempted, cbCalls, failed>>

\* os.remove(list_file_path) raises: "except: pass"
RemoveListFails(c) ==
    /\ wpc[c] = "rmlist"
    /\ rmTried' = [rmTried EXCEPT ![c] = TRUE]
    /\ wpc' = [wpc EXCEPT ![c] = AfterRemoveList(c)]
    /\ UNCHANGED <<registryVars, fsVars, callVars, idx, written, outcome,
                   attempted, cbCalls, failed>>

\* callback(output_path); whether it returns or raises ("except Exception"),
\* the worker goes on to the finally clause
Callback(c) ==
    /\ wpc[c] = "cb"
    /\ cbCalls' = [cbCalls EXCEPT ![c] = Append(@, args[c].output)]
    /\ wpc' = [wpc EXCEPT ![c] = AfterExit("callback")]
    /\ UNCHANGED <<registryVars, fsVars, callVars, idx, written, outcome, attempted,
                   failed, rmTried>>

\* _unregister_stitch: "with self.active_lock"
UnregisterAcquire(c) ==
    /\ wpc[c] = "unreg"
    /\ active_lock = Free
    /\ active_lock' = Worker(c)
    /\ wpc' = [wpc EXCEPT ![c] = "unreg_body"]
    /\ UNCHANGED <<instance, singleton_lock, active_stitches, clock, fsVars, callVars,
                   idx, written, outcome, attempted, cbCalls, failed, rmTried>>

\* as AfterUnregister, with the callback called after the finally clause
AfterUnregisterCallsBack(c) ==
    IF args[c].callback /\ outcome[c] = "zero" THEN "cb" ELSE "done"

\* the finally clause is the last statement of process_videos: the thread ends
AfterUnregister(c) == "done"

\* _unregister_stitch's body and the lock's release
UnregisterBody(c) ==
    /\ wpc[c] = "unreg_body"
    /\ active_stitches' = unregister_stitch(active_stitches, args[c].name)
    /\ active_lock' = Free
    /\ wpc' = [wpc EXCEPT ![c] = AfterUnregister(c)]
    /\ UNCHANGED <<instance, singleton_lock, clock, fsVars, callVars, idx, written,
                   outcome, attempted, cbCalls, failed, rmTried>>

(***************************************************************************)
(* The environment: a new recording appears in the folder                  *)
(***************************************************************************)
AddFile ==
    /\ added < MaxAdded
    /\ files' = files \cup {AddedFile(added + 1)}
    /\ added' = added + 1
    /\ UNCHANGED <<registryVars, mtime, listFile, callVars, workVars>>

Next ==
    \/ \E c \in Callers :
         \/ Call(c)
         \/ NewInstance(c)
         \/ IsStitchingAcquire(c)
         \/ IsStitchingRead(c)
         \/ ListFolder(c)
         \/ RegisterAcquire(c)
         \/ RegisterBody(c)
         \/ SortFiles(c)
         \/ StartThread(c)
         \/ StartThreadFails(c)
         \/ Return(c)
         \/ WriteList(c)
         \/ WriteListFails(c)
         \/ ToolPathFound(c)
         \/ ToolPathMissing(c)
         \/ ToolSucceeds(c)
         \/ ToolFails(c)
         \/ DeleteSource(c)
         \/ RemoveList(c)
         \/ RemoveListFails(c)
         \/ Callback(c)
         \/ UnregisterAcquire(c)
         \/ UnregisterBody(c)
    \/ AddFile

Spec == Init /\ [][Next]_vars

(***************************************************************************)
(* Vocabulary of the properties                                            *)
(***************************************************************************)
Called(c) == pc[c] # "idle"
SameName(c, d) == Called(c) /\ Called(d) /\ args[c].name = args[d].name

\* the call registered its name and its worker has not unregistered it yet
Holding(c) == regTime[c] > 0 /\ wpc[c] # "done"

\* the two calls were in progress at the same time
Concurrent(c, d) == c \in concurrentWith[d] \/ d \in concurrentWith[c]

Accepted(c) == pc[c] = "returned" /\ ret[c] = args[c].output
Rejected(c) == pc[c] = "returned" /\ ret[c] = None

\* the steps of the caller's thread
CallerStep(c) ==
    \/ NewInstance(c)
    \/ IsStitchingAcquire(c) \/ IsStitchingRead(c) \/ ListFolder(c)
    \/ RegisterAcquire(c) \/ RegisterBody(c) \/ SortFiles(c)
    \/ StartThread(c) \/ StartThreadFails(c) \/ Return(c)

(***************************************************************************)
(* C1: mutual exclusion per name.  No two calls of the same name are both  *)
(* between their successful registration and their worker's                *)
(* _unregister_stitch, and the registry holds the record of the one that   *)
(* is.                                                                     *)
(***************************************************************************)
C1_MutualExclusion ==
    \A c \in Callers :
        /\ Holding(c) =>
              /\ is_stitching(active_stitches, args[c].name)
              /\ active_stitches[args[c].name].start_time = regTime[c]
        /\ \A d \in Callers :
              (c # d /\ SameName(c, d)) => ~(Holding(c) /\ Holding(d))

\* a call lost the race at _register_stitch while the winner's worker runs FFmpeg
C1_Witness ==
    \E c, d \in Callers :
        /\ c # d /\ SameName(c, d)
        /\ Holding(c) /\ wpc[c] = "tool"
        /\ Rejected(d) /\ video_files[d] # <<>>

C3_TerminatedUnregistered ==
    \A c \in Callers :
        wpc[c] = "done" =>
            \/ ~is_stitching(active_stitches, args[c].name)
            \/ active_stitches[args[c].name].start_time > regTime[c]

\* one worker ended after a success, another after the tool was not found
C3_Witness ==
    \E c, d \in Callers :
        /\ wpc[c] = "done" /\ outcome[c] = "zero"
        /\ wpc[d] = "done" /\ outcome[d] = "notfound"
        /\ ~is_stitching(active_stitches, args[c].name)
        /\ ~is_stitching(active_stitches, args[d].name)

(***************************************************************************)
(* C4, as stated: every name in active_stitches has exactly one worker     *)
(* that is running or about to be started for it.                          *)
(***************************************************************************)
C4_OneWorkerPerEntry ==
    \A n \in DOMAIN active_stitches :
        Cardinality({c \in Callers :
                        /\ Called(c) /\ args[c].name = n /\ regTime[c] > 0
                        /\ \/ pc[c] \in {"sort", "start"}
                           \/ wpc[c] \notin {"notstarted", "done"}}) = 1

(***************************************************************************)
(* C5: a callback that was supplied is called once, with output_path,      *)
(* when FFmpeg exited with status zero, and is not called at all on any    *)
(* other path.                                                             *)
(***************************************************************************)
C5_CallbackOnceOnSuccess ==
    \A c \in Callers :
        /\ (Called(c) /\ args[c].callback /\ wpc[c] = "done" /\ outcome[c] = "zero")
              => cbCalls[c] = <<args[c].output>>
        /\ outcome[c] # "zero" => cbCalls[c] = <<>>
        /\ Len(cbCalls[c]) <= 1
        /\ \A i \in 1..Len(cbCalls[c]) : cbCalls[c][i] = args[c].output

C5_Witness ==
    \E c \in Callers :
        /\ Called(c) /\ args[c].callback
        /\ wpc[c] = "done" /\ outcome[c] = "zero"
        /\ cbCalls[c] = <<args[c].output>>

(***************************************************************************)
(* C6: a worker tries to delete source files exactly when FFmpeg exited    *)
(* with status zero, cleanup_source is true and output_path does not       *)
(* begin with "_comp_"; it then tries every file of its snapshot.          *)
(***************************************************************************)
Protected(path) == path[1] = "_comp_"

C6_DeleteIffSuccessAndCleanup ==
    \A c \in Callers :
        LET should == outcome[c] = "zero" /\ args[c].cleanup /\ ~Protected(args[c].output)
        IN  /\ attempted[c] # {} => should
            /\ attempted[c] \subseteq Range(video_files[c])
            /\ (should /\ wpc[c] \in {"rmlist", "cb", "unreg", "unreg_body", "done"})
                  => attempted[c] = Range(video_files[c])

C6_Witness ==
    \E c \in Callers :
        /\ wpc[c] = "done" /\ outcome[c] = "zero"
        /\ attempted[c] # {} /\ attempted[c] = Range(video_files[c])

(***************************************************************************)
(* C7: the step by which a call is rejected returns None and changes       *)
(* neither active_stitches nor any list file nor any worker, and the       *)
(* rejected call has registered nothing, started no worker and written no  *)
(* list file.                                                              *)
(***************************************************************************)
C7_RejectionChangesNothing ==
    [][\A c \in Callers :
          (pc[c] # "returned" /\ pc'[c] = "returned" /\ ret'[c] = None)
          => /\ active_stitches' = active_stitches
             /\ listFile' = listFile
             /\ wpc' = wpc
             /\ regTime'[c] = 0
             /\ wpc'[c] = "notstarted"
             /\ written'[c] = <<>>]_vars

\* a call was rejected at is_stitching while the registry held the name
C7_Witness ==
    \E c, d \in Callers :
        /\ c # d /\ SameName(c, d)
        /\ Rejected(c) /\ video_files[c] = <<>> /\ args[c].folder = "clips"
        /\ Holding(d) /\ is_stitching(active_stitches, args[d].name)

(***************************************************************************)
(* C8: the files named in a worker's list file are exactly the video files *)
(* that were in the folder when the call listed it, each once, whatever    *)
(* the sort key and whatever appeared in the folder afterwards.            *)
(***************************************************************************)
C8_ListFileIsSnapshot ==
    \A c \in Callers :
        written[c] # <<>> =>
            /\ { written[c][i][2] : i \in 1..Len(written[c]) } = snap[c]
            /\ Len(written[c]) = Cardinality(snap[c])
            /\ \A i \in 1..Len(written[c]) : written[c][i][1] = args[c].folder

\* the list file was written while the folder held a video file that the
\* snapshot does not have
C8_Witness ==
    \E c \in Callers :
        /\ written[c] # <<>> /\ wpc[c] = "chk"
        /\ \E f \in files \ snap[c] : IsVideo(f)

(***************************************************************************)
(* C9: the gate is not sticky.  When every earlier registration of the     *)
(* name has been unregistered by its worker and no other call of the name  *)
(* is in progress, a call of that name passes is_stitching and its         *)
(* _register_stitch succeeds, however the earlier job ended.               *)
(***************************************************************************)
PriorReleased(c) ==
    /\ \E d \in Callers : d # c /\ SameName(c, d) /\ regTime[d] > 0
    /\ \A d \in Callers :
          (d # c /\ SameName(c, d)) =>
              /\ pc[d] \notin InCall
              /\ regTime[d] > 0 => wpc[d] = "done"

C9_NotSticky ==
    [][\A c \in Callers :
          /\ (pc[c] = "is_read" /\ pc'[c] # "is_read" /\ PriorReleased(c)
              /\ args[c].folder = "clips")
                => pc'[c] = "listdir"
          /\ (pc[c] = "reg_body" /\ pc'[c] # "reg_body" /\ PriorReleased(c))
                => /\ pc'[c] = "sort"
                   /\ regTime'[c] > 0
                   /\ is_stitching(active_stitches', args[c].name)]_vars

\* a name was registered again after a job of that name had failed
C9_Witness ==
    \E c, d \in Callers :
        /\ c # d /\ SameName(c, d) /\ ~Concurrent(c, d)
        /\ wpc[d] = "done" /\ outcome[d] = "nonzero"
        /\ regTime[c] > regTime[d] /\ Holding(c)

(***************************************************************************)
(* C10: no step of stitch_videos_async waits for a worker.  A caller can   *)
(* always take its next step, except that it waits for active_lock while   *)
(* another thread holds it, and the thread holding active_lock is always   *)
(* inside one of the three registry methods, never in the tool or in any   *)
(* other worker step.                                                      *)
(***************************************************************************)
C10_SubmitNeverWaits ==
    \A c \in Callers :
        /\ pc[c] \in {"new", "is_read", "listdir", "reg_body", "sort", "start", "ret"}
              => ENABLED CallerStep(c)
        /\ (pc[c] \in {"is_stitching", "register"} /\ active_lock = Free)
              => ENABLED CallerStep(c)
        /\ active_lock = Caller(c) => pc[c] \in {"is_read", "reg_body"}
        /\ active_lock = Worker(c) => wpc[c] = "unreg_body"

\* while one worker is inside FFmpeg, its own call and a later call of
\* another name have returned their output paths
C10_Witness ==
    \E c, d \in Callers :
        /\ c # d /\ ~SameName(c, d)
        /\ wpc[c] = "tool" /\ Accepted(c)
        /\ Accepted(d) /\ regTime[d] > regTime[c]

(***************************************************************************)
(* The sort order: one call on a folder of three video files, under every  *)
(* assignment of modification times (equal ones included) and every order  *)
(* of the listing.                                                         *)
(***************************************************************************)
OrderVideos == { f \in InitialFiles : IsVideo(f) } \cup {AddedFile(1)}

OrderInit ==
    /\ instance = FALSE
    /\ singleton_lock = Free
    /\ active_stitches = <<>>
    /\ active_lock = Free
    /\ clock = 1
    /\ files = InitialFiles \cup {AddedFile(1)}
    /\ \E t \in [OrderVideos -> 1..MaxMTime] :
         mtime = [f \in AllFiles |-> IF f \in OrderVideos THEN t[f] ELSE StemRank(f[1])]
    /\ added = MaxAdded
    /\ listFile = [n \in Names |-> NoFile]
    /\ args = [c \in Callers |-> NoArgs]
    /\ pc = [c \in Callers |-> "idle"]
    /\ video_files = [c \in Callers |-> <<>>]
    /\ ret = [c \in Callers |-> Pending]
    /\ wpc = [c \in Callers |-> "notstarted"]
    /\ idx = [c \in Callers |-> 0]
    /\ regTime = [c \in Callers |-> 0]
    /\ snap = [c \in Callers |-> {}]
    /\ written = [c \in Callers |-> <<>>]
    /\ outcome = [c \in Callers |-> "none"]
    /\ attempted = [c \in Callers |-> {}]
    /\ cbCalls = [c \in Callers |-> <<>>]
    /\ failed = [c \in Callers |-> {}]
    /\ rmTried = [c \in Callers |-> FALSE]
    /\ concurrentWith = [c \in Callers |-> {}]

\* the steps of the worker thread
WorkerStep(c) ==
    \/ WriteList(c) \/ WriteListFails(c) \/ ToolPathFound(c) \/ ToolPathMissing(c)
    \/ ToolSucceeds(c) \/ ToolFails(c) \/ DeleteSource(c)
    \/ RemoveList(c) \/ RemoveListFails(c) \/ Callback(c)
    \/ UnregisterAcquire(c) \/ UnregisterBody(c)

OrderNext == Call(1) \/ CallerStep(1) \/ WorkerStep(1)

SpecOrder == OrderInit /\ [][OrderNext]_vars

ListRemovalFailed(c) ==
    /\ rmTried[c] /\ wpc[c] \in {"cb", "unreg", "unreg_body"}
    /\ listFile[args[c].name].exists

C12_CleanupFailureTolerated ==
    \A c \in Callers :
        LET bad == failed[c] # {} \/ ListRemovalFailed(c) IN
        /\ failed[c] # {} =>
              \/ wpc[c] = "del"
              \/ /\ wpc[c] \in {"rmlist", "cb", "unreg", "unreg_body", "done"}
                 /\ attempted[c] = Range(video_files[c])
        /\ bad => outcome[c] = "zero"
        /\ (bad /\ wpc[c] = "cb") => args[c].callback
        /\ (bad /\ wpc[c] \in {"unreg", "unreg_body", "done"}) =>
              cbCalls[c] = IF args[c].callback THEN <<args[c].output>> ELSE <<>>

\* the deletion of the first file of the snapshot failed, the later ones were
\* tried and the callback was called
C12_Witness ==
    \E c \in Callers :
        /\ wpc[c] = "done" /\ args[c].callback
        /\ Len(video_files[c]) >= 2 /\ video_files[c][1] \in failed[c]
        /\ attempted[c] = Range(video_files[c])
        /\ cbCalls[c] = <<args[c].output>>

(***************************************************************************)
(* C13, as stated: a worker that wrote its list file has tried to delete   *)
(* it by the time it unregisters, on every exit path.                      *)
(***************************************************************************)
C13_ListFileRemovalTried ==
    \A c \in Callers :
        (written[c] # <<>> /\ wpc[c] \in {"unreg", "unreg_body", "done"}) => rmTried[c]

(***************************************************************************)
(* C14: no retry and no requeue.  The tool ends at most once per worker    *)
(* and is entered only from the path check of a first run, the worker's    *)
(* own entry leaves the registry only by the one step of its               *)
(* _unregister_stitch, which ends the thread, and a worker that has ended  *)
(* does nothing more.                                                      *)
(***************************************************************************)
OwnEntry(a, c) ==
    /\ regTime[c] > 0
    /\ is_stitching(a, args[c].name)
    /\ a[args[c].name].start_time = regTime[c]

C14_NoRetry ==
    [][\A c \in Callers :
          /\ outcome'[c] # outcome[c] => outcome[c] = "none"
          /\ (wpc'[c] = "tool" /\ wpc[c] # "tool") =>
                (wpc[c] = "chk" /\ outcome[c] = "none")
          /\ (wpc[c] = "unreg_body" /\ wpc'[c] # "unreg_body") =>
                /\ OwnEntry(active_stitches, c)
                /\ ~is_stitching(active_stitches', args[c].name)
                /\ wpc'[c] = "done"
          /\ (OwnEntry(active_stitches, c) /\ ~OwnEntry(active_stitches', c)) =>
                wpc[c] = "unreg_body"
          /\ wpc[c] = "done" =>
                /\ wpc'[c] = "done"
                /\ regTime'[c] = regTime[c]
                /\ outcome'[c] = outcome[c]]_vars

\* a job whose tool failed has been removed and its worker has ended
C14_Witness ==
    \E c \in Callers :
        /\ wpc[c] = "done" /\ outcome[c] = "nonzero" /\ regTime[c] > 0
        /\ ~is_stitching(active_stitches, args[c].name)

(***************************************************************************)
(* C15: _register_stitch on a name that is present returns false and       *)
(* changes nothing; on a name that is absent it adds one record, with      *)
(* status "started" and the given folder and output path, and changes no   *)
(* other entry.                                                            *)
(***************************************************************************)
C15_RegisterFrame ==
    [][\A c \in Callers :
          (pc[c] = "reg_body" /\ pc'[c] # "reg_body") =>
              LET n == args[c].name IN
              IF is_stitching(active_stitches, n)
              THEN /\ active_stitches' = active_stitches
                   /\ regTime'[c] = 0
                   /\ pc'[c] = "returned" /\ ret'[c] = None
              ELSE /\ DOMAIN active_stitches' = DOMAIN active_stitches \cup {n}
                   /\ active_stitches'[n].status = "started"
                   /\ active_stitches'[n].folder_path = args[c].folder
                   /\ active_stitches'[n].output_path = args[c].output
                   /\ active_stitches'[n].start_time = regTime'[c]
                   /\ \A m \in DOMAIN active_stitches :
                         active_stitches'[m] = active_stitches[m]
                   /\ pc'[c] = "sort"]_vars

\* a name was registered while the entry of another name was there
C15_Witness ==
    \E c, d \in Callers :
        /\ c # d /\ ~SameName(c, d)
        /\ OwnEntry(active_stitches, c) /\ OwnEntry(active_stitches, d)
        /\ regTime[c] < regTime[d] /\ pc[d] = "sort"

(***************************************************************************)
(* C16: _unregister_stitch is idempotent.  On every registry the program   *)
(* reaches and every name: the name is absent afterwards, an absent name   *)
(* leaves the registry as it is, a second call changes nothing more, and   *)
(* the entries of the other names stay as they are.                        *)
(***************************************************************************)
C16_UnregisterIdempotent ==
    \A n \in Names :
        LET once == unregister_stitch(active_stitches, n) IN
        /\ ~is_stitching(once, n)
        /\ ~is_stitching(active_stitches, n) => once = active_stitches
        /\ unregister_stitch(once, n) = once
        /\ \A m \in DOMAIN active_stitches \ {n} :
              is_stitching(once, m) /\ once[m] = active_stitches[m]

\* a worker has unregistered its name and the older entry of another name
\* is still there
C16_Witness ==
    \E c, d \in Callers :
        /\ c # d /\ ~SameName(c, d)
        /\ wpc[c] = "done" /\ regTime[c] > regTime[d]
        /\ ~is_stitching(active_stitches, args[c].name)
        /\ OwnEntry(active_stitches, d)

(***************************************************************************)
(* C17: no cross-job folder protection.  The two gates look at the name    *)
(* only: a call whose name is not in active_stitches passes is_stitching   *)
(* and registers, whatever folders the active jobs use.                    *)
(***************************************************************************)
C17_GateByNameOnly ==
    [][\A c \in Callers :
          /\ (/\ pc[c] = "is_read" /\ pc'[c] # "is_read"
              /\ ~is_stitching(active_stitches, args[c].name)
              /\ args[c].folder = "clips")
                => pc'[c] = "listdir"
          /\ (/\ pc[c] = "reg_body" /\ pc'[c] # "reg_body"
              /\ ~is_stitching(active_stitches, args[c].name))
                => /\ pc'[c] = "sort"
                   /\ is_stitching(active_stitches', args[c].name)
                   /\ active_stitches'[args[c].name].folder_path = args[c].folder]_vars

\* two jobs of different names run on the same folder, and a file of one
\* job's snapshot was deleted by the other job before the first job's tool
\* has finished
C17_Witness ==
    \E c, d \in Callers :
        /\ c # d /\ ~SameName(c, d) /\ args[c].folder = args[d].folder
        /\ OwnEntry(active_stitches, c) /\ OwnEntry(active_stitches, d)
        /\ wpc[c] \in {"write", "chk", "tool"}
        /\ \E f \in Range(video_files[c]) :
              f \in attempted[d] \ failed[d] /\ f \notin files

(***************************************************************************)
(* C18, as stated, in the form that a finite run decides: once neither the *)
(* submitter nor the worker of a registration has a step left, the         *)
(* registration has been removed.  (Under fair scheduling a registration   *)
(* that is eventually removed cannot be left in such a state.)             *)
(***************************************************************************)
C18_ReleasedWhenThreadsEnd ==
    \A c \in Callers :
        (/\ regTime[c] > 0
         /\ pc[c] \in {"returned", "raised"}
         /\ wpc[c] \in {"notstarted", "done"})
        => ~OwnEntry(active_stitches, c)

(***************************************************************************)
(* C19: the callback runs before the job is unregistered.  While a worker  *)
(* is at its callback its own entry is in active_stitches and it does not  *)
(* hold active_lock, the callback's step leaves the entry there, and a     *)
(* call of the same name that reads is_stitching meanwhile is rejected.    *)
(***************************************************************************)
C19_CallbackBeforeUnregister ==
    [][\A c \in Callers :
          wpc[c] = "cb" =>
              /\ OwnEntry(active_stitches, c)
              /\ active_lock # Worker(c)
              /\ wpc'[c] # "cb" => OwnEntry(active_stitches', c)
              /\ \A d \in Callers :
                    (/\ d # c /\ SameName(c, d)
                     /\ pc[d] = "is_read" /\ pc'[d] # "is_read")
                    => (pc'[d] = "returned" /\ ret'[d] = None)]_vars

\* a call of the same name holds the lock inside is_stitching while the
\* worker is at its callback, on the success path
C19_Witness ==
    \E c, d \in Callers :
        /\ c # d /\ SameName(c, d)
        /\ wpc[c] = "cb" /\ outcome[c] = "zero" /\ cbCalls[c] = <<>>
        /\ pc[d] = "is_read" /\ active_lock = Caller(d)

(***************************************************************************)
(* C20: active_lock is held exactly while a thread is inside the body of   *)
(* is_stitching, _register_stitch or _unregister_stitch, from which the    *)
(* release is always possible; the singleton lock is held exactly inside   *)
(* StitchManager.__new__; no thread holds both, and no thread that is      *)
(* about to acquire a lock holds it already.                               *)
(***************************************************************************)
C20_LockDiscipline ==
    /\ active_lock \in {Free} \cup {Caller(c) : c \in Callers}
                             \cup {Worker(c) : c \in Callers}
    /\ singleton_lock \in {Free} \cup {Caller(c) : c \in Callers}
    /\ \A c \in Callers :
          /\ active_lock = Caller(c) <=> pc[c] \in {"is_read", "reg_body"}
          /\ active_lock = Worker(c) <=> wpc[c] = "unreg_body"
          /\ singleton_lock = Caller(c) <=> pc[c] = "new"
          /\ active_lock = Caller(c) => ENABLED (IsStitchingRead(c) \/ RegisterBody(c))
          /\ active_lock = Worker(c) => ENABLED UnregisterBody(c)
          /\ singleton_lock = Caller(c) => ENABLED NewInstance(c)
          /\ ~(singleton_lock = Caller(c) /\ active_lock = Caller(c))

\* one thread is inside _register_stitch with the lock while the worker of
\* another job is at its callback
C20_Witness ==
    \E c, d \in Callers :
        /\ c # d
        /\ active_lock = Caller(d) /\ pc[d] = "reg_body"
        /\ wpc[c] = "cb"

====
